---------------------------- MODULE Spec2Model ----------------------------
(***************************************************************************)
(* A model of csvjoin (src/csvjoin.go): an N-way join of CSV files on the  *)
(* columns common to all of them.                                          *)
(*                                                                         *)
(* A Go string is a sequence of bytes (naturals); a Record (a Go map) is a *)
(* TLA+ function from column names to cells together with the identity of  *)
(* the map object; a Go slice of Records is a window on a backing array.   *)
(* main is a chain of calls: each call (and each iteration of a loop of    *)
(* calls) is one action.                                                   *)
(***************************************************************************)
EXTENDS Integers, Sequences, FiniteSets, TLC

\* ------------------------------------------------------------------ bounds
\* rows a file holds after its header, at most
MaxRows == 2
\* columns of a header, at most (in the header family)
MaxCols == 3
\* spare capacity append may allocate beyond the needed length, at most
MaxSlack == 2
\* the program is run this many times on the same input
Runs == 2

\* ------------------------------------------------------------ Go strings
\* bytes: "+" is 43, "1" is 49, "2" is 50, "a".."c" are 97..99, "x" 120, "y" 121
Empty == <<>>
Sep == <<43, 43>>
sPlus == <<43>>
s1 == <<49>>
s2 == <<50>>
colA == <<97>>
colB == <<98>>
colC == <<99>>
colX == <<120>>
colY == <<121>>

Range(s) == {s[i] : i \in DOMAIN s}

\* Go's < on strings: byte-wise lexicographic, a proper prefix is smaller
RECURSIVE StrLess(_, _)
StrLess(a, b) ==
    IF b = <<>> THEN FALSE
    ELSE IF a = <<>> THEN TRUE
    ELSE IF a[1] # b[1] THEN a[1] < b[1]
    ELSE StrLess(Tail(a), Tail(b))

\* the orders in which a range over a Go map may enumerate the set S
MapOrders(S) ==
    {s \in [1..Cardinality(S) -> S] : \A i, j \in DOMAIN s : i # j => s[i] # s[j]}


\* ------------------------------------------------------- the CSV reader
\* A file is [ok, lines]: ok says whether os.Open succeeds; a line is
\* [bad, fields]: bad says the line has a parse error, fields are the fields
\* parsed (up to the error).  A reader is [pos, fpr, eof]: the lines
\* consumed, csv.Reader.FieldsPerRecord, and whether Read has returned io.EOF.
NewReader == [pos |-> 0, fpr |-> 0, eof |-> FALSE]

\* csv.Reader.Read: [eof, err, rec, rd], rd the reader afterwards
ReaderRead(f, rd) ==
    IF rd.pos >= Len(f.lines)
    THEN [eof |-> TRUE, err |-> TRUE, rec |-> <<>>, rd |-> [rd EXCEPT !.eof = TRUE]]
    ELSE LET line == f.lines[rd.pos + 1]
             n == Len(line.fields)
         IN  [eof |-> FALSE,
              err |-> line.bad \/ (rd.fpr > 0 /\ n # rd.fpr),
              rec |-> line.fields,
              rd  |-> [rd EXCEPT !.pos = @ + 1,
                                 !.fpr = IF rd.fpr = 0 THEN n ELSE @]]

\* ------------------------------------------------------ header functions
RECURSIVE Flatten(_)
Flatten(hs) == IF hs = <<>> THEN <<>> ELSE hs[1] \o Flatten(Tail(hs))

\* headerCounts[col]++ for every cell of every header
RECURSIVE CountCols(_, _)
CountCols(cells, counts) ==
    IF cells = <<>> THEN counts
    ELSE LET c == cells[1]
         IN  CountCols(Tail(cells),
                       IF c \in DOMAIN counts
                       THEN [counts EXCEPT ![c] = @ + 1]
                       ELSE counts @@ (c :> 1))

HeaderCounts(hs) == CountCols(Flatten(hs), << >>)

\* the columns IdentifyJoinColumns collects: count == len(allHeaders)
JoinColumnSet(hs) ==
    LET counts == HeaderCounts(hs)
    IN  {c \in DOMAIN counts : counts[c] = Len(hs)}

\* UniqueSlice.Append keeps every string
UniqueSliceAppendAll(slice, s) == Append(slice, s)

\* UniqueSlice.Append
UniqueSliceAppend(slice, s) ==
    IF \E i \in DOMAIN slice : slice[i] = s THEN slice ELSE Append(slice, s)

RECURSIVE AppendEach(_, _)
AppendEach(slice, cells) ==
    IF cells = <<>> THEN slice
    ELSE AppendEach(UniqueSliceAppend(slice, cells[1]), Tail(cells))

IdentifyOutputColumnsOf(hs) == AppendEach(<<>>, Flatten(hs))

\* ------------------------------------------------------------- ReadData
\* recordOf: r[headers[i]] = v for every cell of the row, a later cell under
\* a repeated name replacing the earlier one; headers[i] out of range panics
RECURSIVE RecordFill(_, _, _, _)
RecordFill(headers, row, i, m) ==
    IF i > Len(row) THEN m
    ELSE LET n == headers[i]
         IN  RecordFill(headers, row, i + 1,
                        IF n \in DOMAIN m THEN [m EXCEPT ![n] = row[i]]
                        ELSE m @@ (n :> row[i]))

\* a Record: the map m and the identity ref of the map object
RecordOf(headers, row, ref) == [ref |-> ref, m |-> RecordFill(headers, row, 1, << >>)]

\* rec[c] of a Go map: the zero value "" when c is no key of it
MapGet(m, c) == IF c \in DOMAIN m THEN m[c] ELSE Empty

\* keyOf: the join columns' values, "++" between them
RECURSIVE KeyParts(_, _, _)
KeyParts(m, joinCols, i) ==
    IF i > Len(joinCols) THEN <<>>
    ELSE (IF i > 1 THEN Sep ELSE <<>>) \o MapGet(m, joinCols[i])
         \o KeyParts(m, joinCols, i + 1)

KeyOf(rec, joinCols) == KeyParts(rec.m, joinCols, 1)

\* DataCollection.Add: dc.data[key] = append(dc.data[key], rec)
DataGet(data, key) == IF key \in DOMAIN data THEN data[key] ELSE <<>>

\* DataCollection.Add putting the record in front of the key's list
DataCollectionAddFront(data, key, rec) ==
    IF key \in DOMAIN data
    THEN [data EXCEPT ![key] = <<rec>> \o @]
    ELSE data @@ (key :> <<rec>>)

DataCollectionAdd(data, key, rec) ==
    IF key \in DOMAIN data
    THEN [data EXCEPT ![key] = Append(@, rec)]
    ELSE data @@ (key :> <<rec>>)

\* ReadData's loop where a failed Read ends the loop like io.EOF does
RECURSIVE ReadDataLenient(_, _, _, _, _, _)
ReadDataLenient(src, f, rd, headers, joinCols, data) ==
    LET r == ReaderRead(f, rd)
    IN  IF r.eof \/ r.err THEN [status |-> "ok", data |-> data, rd |-> r.rd]
        ELSE IF Len(r.rec) > Len(headers)
        THEN [status |-> "panic", data |-> data, rd |-> r.rd]
        ELSE LET rec == RecordOf(headers, r.rec, <<src, r.rd.pos>>)
             IN  ReadDataLenient(src, f, r.rd, headers, joinCols,
                                 DataCollectionAdd(data, KeyOf(rec, joinCols), rec))

\* ReadData's loop from reader state rd on: [status, data, rd]
RECURSIVE ReadData(_, _, _, _, _, _)
ReadData(src, f, rd, headers, joinCols, data) ==
    LET r == ReaderRead(f, rd)
    IN  IF r.eof THEN [status |-> "ok", data |-> data, rd |-> r.rd]
        ELSE IF r.err THEN [status |-> "fatal", data |-> data, rd |-> r.rd]
        ELSE IF Len(r.rec) > Len(headers)
        THEN [status |-> "panic", data |-> data, rd |-> r.rd]
        ELSE LET rec == RecordOf(headers, r.rec, <<src, r.rd.pos>>)
             IN  ReadData(src, f, r.rd, headers, joinCols,
                          DataCollectionAdd(data, KeyOf(rec, joinCols), rec))

\* sort.Strings: insertion into a sorted list, by StrLess
RECURSIVE InsertSorted(_, _)
InsertSorted(sorted, k) ==
    IF sorted = <<>> THEN <<k>>
    ELSE IF StrLess(k, sorted[1]) THEN <<k>> \o sorted
    ELSE <<sorted[1]>> \o InsertSorted(Tail(sorted), k)

RECURSIVE SortFrom(_, _)
SortFrom(keys, sorted) ==
    IF keys = <<>> THEN sorted
    ELSE SortFrom(Tail(keys), InsertSorted(sorted, keys[1]))

\* the keys left in the order the range over keyMap gave them
Unsorted(keys) == keys

SortStrings(keys) == SortFrom(keys, <<>>)

\* ------------------------------------------------- slices of Records
\* A slice is [arr, len, cap]: a window from the start of backing array arr
\* of the heap (arr = 0: no array, the literal []Record{}).  An array is a
\* sequence of cap Records, NilRec where nothing was stored.
NilRec == [ref |-> <<0, 0>>, m |-> << >>]
EmptySlice == [arr |-> 0, len |-> 0, cap |-> 0]

SliceElems(heap, s) == [i \in 1..s.len |-> heap[s.arr][i]]

\* the capacity append allocates when a slice of capacity cap is full:
\* policy 0 is the runtime's doubling, policy k > 0 allocates cap + k
GrowCap(pol, cap) ==
    IF pol = 0 THEN (IF cap = 0 THEN 1 ELSE 2 * cap) ELSE cap + pol

GrowthPolicies == 0..MaxSlack

\* append(s, x) on recursion state st: [slice, st].  With room left the
\* element is stored in place, in the array s shares with every slice cut
\* from it; a full slice is copied to a new array.
GoAppend(st, s, x, pol) ==
    IF s.len < s.cap
    THEN [slice |-> [s EXCEPT !.len = @ + 1],
          st    |-> [st EXCEPT !.heap[s.arr][s.len + 1] = x,
                               !.aliased = @ \/ st.heap[s.arr][s.len + 1] # NilRec]]
    ELSE LET newcap == GrowCap(pol, s.cap)
             arr == [i \in 1..newcap |->
                       IF i <= s.len THEN st.heap[s.arr][i]
                       ELSE IF i = s.len + 1 THEN x ELSE NilRec]
         IN  [slice |-> [arr |-> Len(st.heap) + 1, len |-> s.len + 1, cap |-> newcap],
              st    |-> [st EXCEPT !.heap = Append(@, arr)]]

\* ------------------------------------------------- WriteCSVs and recurse
\* prt's scan with the last record defining the column winning
RECURSIVE CellOfLast(_, _, _)
CellOfLast(recs, col, i) ==
    IF i > Len(recs) THEN Empty
    ELSE IF \E j \in (i + 1)..Len(recs) : col \in DOMAIN recs[j].m
    THEN CellOfLast(recs, col, i + 1)
    ELSE IF col \in DOMAIN recs[i].m THEN recs[i].m[col]
    ELSE Empty

\* prt's inner loop from record i on: the value of col in the first record
\* that has it, "" when none has
RECURSIVE CellOf(_, _, _)
CellOf(recs, col, i) ==
    IF i > Len(recs) THEN Empty
    ELSE IF col \in DOMAIN recs[i].m THEN recs[i].m[col]
    ELSE CellOf(recs, col, i + 1)

\* prt: one cell per output column, written as one row.  log keeps what prt
\* was called with: the key, the records read from the slice (combo, by
\* identity) and the records chosen along the branch of the call (path).
Prt(ctx, recs, path, st) ==
    LET elems == SliceElems(st.heap, recs)
        row == [c \in DOMAIN ctx.cols |-> CellOf(elems, ctx.cols[c], 1)]
    IN  [st EXCEPT !.rows = Append(@, row),
                   !.log = Append(@, [key   |-> ctx.key,
                                      combo |-> [i \in DOMAIN elems |-> elems[i].ref],
                                      path  |-> path])]

RECURSIVE Recurse(_, _, _, _, _)

\* a source without records for the key ends the branch
SkipSourceDrop(ctx, recs, remain, path, st) == st

\* len(thisRecords) == 0: recurse on the remaining sources with recs as it is
SkipSource(ctx, recs, remain, path, st) ==
    Recurse(ctx, recs, Tail(remain), path, st)

\* the loop with recs = append(recs, rec) carried from record to record
RECURSIVE LoopRecordsCarry(_, _, _, _, _, _, _)
LoopRecordsCarry(ctx, recs, remain, thisRecords, j, path, st) ==
    IF j > Len(thisRecords) THEN st
    ELSE LET a == GoAppend(st, recs, thisRecords[j], ctx.pol)
         IN  LoopRecordsCarry(ctx, a.slice, remain, thisRecords, j + 1, path,
                 Recurse(ctx, a.slice, Tail(remain),
                         Append(path, thisRecords[j].ref), a.st))

\* for _, rec := range thisRecords { recurse(key, append(recs, rec), ...) }
RECURSIVE LoopRecords(_, _, _, _, _, _, _)
LoopRecords(ctx, recs, remain, thisRecords, j, path, st) ==
    IF j > Len(thisRecords) THEN st
    ELSE LET a == GoAppend(st, recs, thisRecords[j], ctx.pol)
         IN  LoopRecords(ctx, recs, remain, thisRecords, j + 1, path,
                 Recurse(ctx, a.slice, Tail(remain),
                         Append(path, thisRecords[j].ref), a.st))

\* recurse: ctx is [key, cols, pol], remain the DataCollections left
Recurse(ctx, recs, remain, path, st) ==
    IF Len(remain) = 0 THEN Prt(ctx, recs, path, st)
    ELSE LET thisRecords == DataGet(remain[1], ctx.key)
         IN  IF Len(thisRecords) = 0
             THEN SkipSource(ctx, recs, remain, path, st)
             ELSE LoopRecords(ctx, recs, remain, thisRecords, 1, path, st)

\* WriteCSVs for one key under growth policy pol: the rows written, the
\* calls of prt, and whether an append stored over a sibling's record
WriteCSVsOf(key, cols, data, pol) ==
    Recurse([key |-> key, cols |-> cols, pol |-> pol], EmptySlice, data, <<>>,
            [heap |-> <<>>, rows |-> <<>>, log |-> <<>>, aliased |-> FALSE])

\* ------------------------------------------------------------ the state
VARIABLES
    files,          \* os.Args[1:]: the files named on the command line
    pc,             \* the call of main that runs next ("exit": the process ended)
    status,         \* "running", "ok" (main returned), or how the process died
    readers,        \* the csv readers OpenReaders opened, in file order
    allHeaders,     \* GatherAllHeaders' result
    joinColumns,    \* IdentifyJoinColumns' result
    outputColumns,  \* IdentifyOutputColumns' result
    allData,        \* ReadAllInputSources: the DataCollections read so far
    keyMap,         \* ReadAllInputSources: the keys seen so far
    allKeys,        \* ReadAllInputSources' sorted key list
    keyIdx,         \* main's loop over allKeys: the index of the next key
    out,            \* the rows handed to writer.Write, in order
    prtLog,         \* the calls of prt: key, records read, records chosen
    aliased,        \* whether an append stored over a sibling branch's record
    run,            \* which run on these files this is
    prevOut         \* the output of the previous run on these files

vars == <<files, pc, status, readers, allHeaders, joinColumns, outputColumns,
          allData, keyMap, allKeys, keyIdx, out, prtLog, aliased, run, prevOut>>

\* the state main starts in
Start ==
    /\ pc = "GetFileNames"
    /\ status = "running"
    /\ readers = <<>>
    /\ allHeaders = <<>>
    /\ joinColumns = <<>>
    /\ outputColumns = <<>>
    /\ allData = <<>>
    /\ keyMap = {}
    /\ allKeys = <<>>
    /\ keyIdx = 1
    /\ out = <<>>
    /\ prtLog = <<>>
    /\ aliased = FALSE

\* ------------------------------------------------------------- the inputs
Line(fields) == [bad |-> FALSE, fields |-> fields]
BadLine == [bad |-> TRUE, fields |-> <<>>]
File(header, rows) == [ok |-> TRUE, lines |-> <<header>> \o rows]
NoFile == [ok |-> FALSE, lines |-> <<>>]
EmptyFile == [ok |-> TRUE, lines |-> <<>>]

SeqsUpTo(S, n) == UNION {[1..k -> S] : k \in 0..n}
SeqsFromTo(S, m, n) == UNION {[1..k -> S] : k \in m..n}

\* the payload cell of row n of source i: the bytes of the digits i and n
Payload(i, n) == <<48 + i, 48 + n>>

\* Join family: four sources joined on column a; x is shared by sources 1
\* and 3, y by sources 2 and 4; a row is its key cell and its payload cell;
\* sources 2 and 3 hold one row at most
JoinHeaders == <<<<colA, colX>>, <<colA, colY>>, <<colA, colX>>, <<colA, colY>>>>
JoinKeyCells == {s1, s2}
JoinRows(i) == SeqsUpTo(JoinKeyCells, IF i \in {2, 3} THEN 1 ELSE MaxRows)
JoinFiles ==
    {[i \in 1..4 |-> File(Line(JoinHeaders[i]),
                          [n \in DOMAIN ks[i] |-> Line(<<ks[i][n], Payload(i, n)>>)])]
       : ks \in {t \in [1..4 -> SeqsUpTo(JoinKeyCells, MaxRows)] :
                    \A i \in 1..4 : t[i] \in JoinRows(i)}}

\* Key family: two sources whose columns a and b are both join columns;
\* the second source holds one row at most, without "+"
KeyCells == {Empty, sPlus, s1}
KeyRows(cells) == {Line(<<x, y>>) : x \in cells, y \in cells}
KeyFiles ==
    {<<File(Line(<<colA, colB>>), r1), File(Line(<<colB, colA>>), r2)>>
       : r1 \in SeqsUpTo(KeyRows(KeyCells), MaxRows),
         r2 \in SeqsUpTo(KeyRows({Empty, s1}), 1)}

\* Header family: two headers over three names, repeated names included,
\* or two such headers of two names at most and a third of one name; every
\* source holds one row, the cell of column j being the byte of the digit j
HeaderNames == {colA, colB, colC}
HeaderFile(h) == File(Line(h), <<Line([j \in DOMAIN h |-> <<48 + j>>])>>)
HeaderFiles ==
    LET hs == SeqsFromTo(HeaderNames, 1, MaxCols)
        short == {h \in hs : Len(h) <= 2}
    IN  {<<HeaderFile(h1), HeaderFile(h2)>> : h1 \in hs, h2 \in hs}
        \cup {<<HeaderFile(h1), HeaderFile(h2), HeaderFile(<<c>>)>>
                : h1 \in short, h2 \in short, c \in HeaderNames}

\* Failure family: up to two files, each missing, empty, or a header line
\* (possibly unparsable) and rows that parse, do not parse, or hold a
\* second field
FailHeaders == {Line(<<colA>>), Line(<<colB>>), Line(<<colA, colA>>), BadLine}
FailRows == {Line(<<s1>>), Line(<<s1, s1>>), BadLine}
FailFile ==
    {NoFile, EmptyFile}
    \cup {File(h, rows) : h \in FailHeaders, rows \in SeqsUpTo(FailRows, MaxRows)}
FailFiles == SeqsUpTo(FailFile, 2)

InitWith(F) ==
    /\ files \in F
    /\ run = 1
    /\ prevOut = <<>>
    /\ Start

Init == InitWith(JoinFiles)
InitKeys == InitWith(KeyFiles)
InitHeaders == InitWith(HeaderFiles)
InitFail == InitWith(FailFiles)

\* ------------------------------------------------------------ the actions
\* the process ends with what it has done so far
Die(how) ==
    /\ status' = how
    /\ pc' = "exit"

\* GetFileNames: fewer than two names is a usage error
GetFileNames ==
    /\ pc = "GetFileNames"
    /\ IF Len(files) < 2 THEN Die("usage")
       ELSE pc' = "OpenReaders" /\ status' = status
    /\ UNCHANGED <<files, readers, allHeaders, joinColumns, outputColumns, allData,
                   keyMap, allKeys, keyIdx, out, prtLog, aliased, run, prevOut>>

\* OpenReaders' loop from file i on
RECURSIVE OpenFrom(_, _, _)
OpenFrom(fs, i, rds) ==
    IF i > Len(fs) THEN [status |-> "ok", readers |-> rds]
    ELSE IF ~fs[i].ok THEN [status |-> "fatal", readers |-> rds]
    ELSE OpenFrom(fs, i + 1, Append(rds, NewReader))

OpenReaders ==
    /\ pc = "OpenReaders"
    /\ LET r == OpenFrom(files, 1, <<>>)
       IN  /\ readers' = r.readers
           /\ IF r.status = "ok" THEN pc' = "GatherAllHeaders" /\ status' = status
              ELSE Die(r.status)
    /\ UNCHANGED <<files, allHeaders, joinColumns, outputColumns, allData,
                   keyMap, allKeys, keyIdx, out, prtLog, aliased, run, prevOut>>

\* GatherAllHeaders' loop from reader i on: only io.EOF is checked, the
\* fields of a header line that failed to parse are taken as the header
RECURSIVE GatherFrom(_, _, _, _)
GatherFrom(fs, rds, i, hs) ==
    IF i > Len(rds) THEN [status |-> "ok", headers |-> hs, readers |-> rds]
    ELSE LET r == ReaderRead(fs[i], rds[i])
         IN  IF r.eof
             THEN [status |-> "fatal", headers |-> hs,
                   readers |-> [rds EXCEPT ![i] = r.rd]]
             ELSE GatherFrom(fs, [rds EXCEPT ![i] = r.rd], i + 1, Append(hs, r.rec))

GatherAllHeaders ==
    /\ pc = "GatherAllHeaders"
    /\ LET r == GatherFrom(files, readers, 1, <<>>)
       IN  /\ readers' = r.readers
           /\ allHeaders' = r.headers
           /\ IF r.status = "ok" THEN pc' = "IdentifyJoinColumns" /\ status' = status
              ELSE Die(r.status)
    /\ UNCHANGED <<files, joinColumns, outputColumns, allData,
                   keyMap, allKeys, keyIdx, out, prtLog, aliased, run, prevOut>>

\* IdentifyJoinColumns: the columns are collected by a range over the map
\* headerCounts, in whatever order the map gives them
IdentifyJoinColumns ==
    /\ pc = "IdentifyJoinColumns"
    /\ LET cols == JoinColumnSet(allHeaders)
       IN  IF cols = {}
           THEN joinColumns' = <<>> /\ Die("fatal")
           ELSE /\ \E order \in MapOrders(cols) : joinColumns' = order
                /\ pc' = "IdentifyOutputColumns"
                /\ status' = status
    /\ UNCHANGED <<files, readers, allHeaders, outputColumns, allData,
                   keyMap, allKeys, keyIdx, out, prtLog, aliased, run, prevOut>>

IdentifyOutputColumns ==
    /\ pc = "IdentifyOutputColumns"
    /\ outputColumns' = IdentifyOutputColumnsOf(allHeaders)
    /\ pc' = "ReadAllInputSources"
    /\ UNCHANGED <<files, status, readers, allHeaders, joinColumns, allData,
                   keyMap, allKeys, keyIdx, out, prtLog, aliased, run, prevOut>>

\* ReadAllInputSources, one iteration of its loop: ReadData on the next
\* reader, its keys put into keyMap, its DataCollection appended
ReadAllInputSourcesLoop ==
    /\ pc = "ReadAllInputSources"
    /\ Len(allData) < Len(readers)
    /\ LET i == Len(allData) + 1
           r == ReadData(i, files[i], readers[i], allHeaders[i], joinColumns, << >>)
       IN  /\ readers' = [readers EXCEPT ![i] = r.rd]
           /\ IF r.status = "ok"
              THEN /\ keyMap' = keyMap \cup DOMAIN r.data
                   /\ allData' = Append(allData, r.data)
                   /\ pc' = pc
                   /\ status' = status
              ELSE /\ Die(r.status)
                   /\ UNCHANGED <<keyMap, allData>>
    /\ UNCHANGED <<files, allHeaders, joinColumns, outputColumns,
                   allKeys, keyIdx, out, prtLog, aliased, run, prevOut>>

\* ReadAllInputSources after its loop: the keys of keyMap, collected by a
\* range over the map, sorted and returned
ReadAllInputSourcesReturn ==
    /\ pc = "ReadAllInputSources"
    /\ Len(allData) = Len(readers)
    /\ \E order \in MapOrders(keyMap) : allKeys' = SortStrings(order)
    /\ pc' = "WriteHeader"
    /\ UNCHANGED <<files, status, readers, allHeaders, joinColumns, outputColumns,
                   allData, keyMap, keyIdx, out, prtLog, aliased, run, prevOut>>

\* main: writer.Write(outputColumns)
WriteHeader ==
    /\ pc = "WriteHeader"
    /\ out' = Append(out, outputColumns)
    /\ pc' = "WriteCSVs"
    /\ UNCHANGED <<files, status, readers, allHeaders, joinColumns, outputColumns,
                   allData, keyMap, allKeys, keyIdx, prtLog, aliased, run, prevOut>>

\* main's loop over allKeys, one iteration: WriteCSVs for the next key
WriteCSVs ==
    /\ pc = "WriteCSVs"
    /\ keyIdx <= Len(allKeys)
    /\ \E pol \in GrowthPolicies :
         LET r == WriteCSVsOf(allKeys[keyIdx], outputColumns, allData, pol)
         IN  /\ out' = out \o r.rows
             /\ prtLog' = prtLog \o r.log
             /\ aliased' = (aliased \/ r.aliased)
    /\ keyIdx' = keyIdx + 1
    /\ UNCHANGED <<files, pc, status, readers, allHeaders, joinColumns,
                   outputColumns, allData, keyMap, allKeys, run, prevOut>>

\* main after its loop: writer.Flush() and return
Flush ==
    /\ pc = "WriteCSVs"
    /\ keyIdx > Len(allKeys)
    /\ Die("ok")
    /\ UNCHANGED <<files, readers, allHeaders, joinColumns, outputColumns, allData,
                   keyMap, allKeys, keyIdx, out, prtLog, aliased, run, prevOut>>

\* the program is run again on the same files
Rerun ==
    /\ pc = "exit"
    /\ status = "ok"
    /\ run < Runs
    /\ run' = run + 1
    /\ prevOut' = out
    /\ pc' = "GetFileNames"
    /\ status' = "running"
    /\ readers' = <<>>
    /\ allHeaders' = <<>>
    /\ joinColumns' = <<>>
    /\ outputColumns' = <<>>
    /\ allData' = <<>>
    /\ keyMap' = {}
    /\ allKeys' = <<>>
    /\ keyIdx' = 1
    /\ out' = <<>>
    /\ prtLog' = <<>>
    /\ aliased' = FALSE
    /\ UNCHANGED files

Next ==
    \/ GetFileNames
    \/ OpenReaders
    \/ GatherAllHeaders
    \/ IdentifyJoinColumns
    \/ IdentifyOutputColumns
    \/ ReadAllInputSourcesLoop
    \/ ReadAllInputSourcesReturn
    \/ WriteHeader
    \/ WriteCSVs
    \/ Flush
    \/ Rerun

Spec == Init /\ [][Next]_vars
SpecKeys == InitKeys /\ [][Next]_vars
SpecHeaders == InitHeaders /\ [][Next]_vars
SpecFail == InitFail /\ [][Next]_vars

\* ------------------------------------------------------- the properties
\* what the properties speak of, stated without the program's own functions

\* a < b as byte strings: a is a proper prefix of b, or they first differ
\* at a byte where a's is the smaller
LexLess(a, b) ==
    \E k \in 1..Len(b) :
        /\ \A j \in 1..(k - 1) : j <= Len(a) /\ a[j] = b[j]
        /\ (k > Len(a) \/ a[k] < b[k])

\* main has returned
Done == pc = "exit" /\ status = "ok"
\* the process died before main returned
Aborted == pc = "exit" /\ status # "ok"
\* ReadAllInputSources has returned
KeysReturned == pc \in {"WriteHeader", "WriteCSVs"} \/ Done
\* IdentifyOutputColumns has returned
OutputColumnsReturned == pc = "ReadAllInputSources" \/ KeysReturned
\* IdentifyJoinColumns has returned
JoinColumnsReturned ==
    pc = "IdentifyOutputColumns" \/ OutputColumnsReturned
    \/ (Aborted /\ joinColumns # <<>>)

\* the records source i holds under key
RecordsOf(i, key) == DataGet(allData[i], key)
\* the sources holding records under key
SourcesOf(key) == {i \in DOMAIN allData : Len(RecordsOf(i, key)) > 0}
\* the loaded record with identity ref
RecordAt(ref) ==
    CHOOSE r \in UNION {Range(allData[ref[1]][k]) : k \in DOMAIN allData[ref[1]]} :
        r.ref = ref
\* every loaded record, with the key it is stored under
Loaded ==
    UNION {UNION {{[key |-> k, rec |-> r] : r \in Range(allData[i][k])}
                     : k \in DOMAIN allData[i]}
              : i \in DOMAIN allData}

RECURSIVE ProductFrom(_, _)
ProductFrom(key, i) ==
    IF i > Len(allData) THEN 1
    ELSE (IF Len(RecordsOf(i, key)) = 0 THEN 1 ELSE Len(RecordsOf(i, key)))
         * ProductFrom(key, i + 1)

\* the calls of prt made for key
CallsFor(key) == {n \in DOMAIN prtLog : prtLog[n].key = key}

\* C1: once WriteCSVs has run for a key, the rows written for it number the
\* product over the sources of max(n_i, 1), n_i the records source i holds
\* under the key (a source holding none neither drops the key nor adds
\* rows); every call of prt writes one row.
C1_RowCountIsProduct ==
    KeysReturned =>
        /\ \A k \in DOMAIN allKeys :
              Cardinality(CallsFor(allKeys[k])) =
                  IF k < keyIdx THEN ProductFrom(allKeys[k], 1) ELSE 0
        /\ pc = "WriteHeader" \/ Len(out) = 1 + Len(prtLog)

\* a key with record counts (2, 0, 1, 2) has been written: four rows
C1_Witness ==
    /\ Done
    /\ \E k \in DOMAIN allKeys :
          /\ Len(RecordsOf(1, allKeys[k])) = 2
          /\ Len(RecordsOf(2, allKeys[k])) = 0
          /\ Len(RecordsOf(3, allKeys[k])) = 1
          /\ Len(RecordsOf(4, allKeys[k])) = 2
          /\ Cardinality(CallsFor(allKeys[k])) = 4

\* C2: two loaded records are stored under equal keys iff they agree on the
\* value of every join column.
C2_KeyEqualIffJoinValuesEqual ==
    \A e1, e2 \in Loaded :
        (e1.key = e2.key) <=>
            \A c \in Range(joinColumns) : MapGet(e1.rec.m, c) = MapGet(e2.rec.m, c)

\* the columns whose name is in every header
CommonColumns == {c \in Range(Flatten(allHeaders)) :
                     \A i \in DOMAIN allHeaders : c \in Range(allHeaders[i])}

\* C3: IdentifyJoinColumns returns exactly the column names that are in
\* every source's header, a name repeated inside one header counting once
\* for that source.
C3_JoinColumnsAreCommonColumns ==
    JoinColumnsReturned => Range(joinColumns) = CommonColumns

\* C4: a second run on the same files writes the same header row and the
\* same data rows in the same order as the first.
C4_RerunSameOutput ==
    (Done /\ run > 1) => out = prevOut

\* the place of the first cell of the headers, source after source, that
\* holds name c
FirstSeen(c) ==
    LET flat == Flatten(allHeaders)
    IN  CHOOSE n \in DOMAIN flat :
            flat[n] = c /\ \A j \in 1..(n - 1) : flat[j] # c

\* what C5 says of the names and their order: every name of any header
\* once, by first occurrence
C5_NamesOnceInFirstSeenOrder ==
    /\ Range(outputColumns) = Range(Flatten(allHeaders))
    /\ \A i, j \in DOMAIN outputColumns :
          i < j => /\ outputColumns[i] # outputColumns[j]
                   /\ FirstSeen(outputColumns[i]) < FirstSeen(outputColumns[j])

\* C5 as stated: IdentifyOutputColumns' list holds every distinct name of
\* any header once, ordered by first occurrence, and is at least as long as
\* every single source's header.
C5_AsLongAsEveryHeader ==
    OutputColumnsReturned =>
        /\ C5_NamesOnceInFirstSeenOrder
        /\ \A i \in DOMAIN allHeaders : Len(outputColumns) >= Len(allHeaders[i])

\* C5 as amended: ... and holds at least as many names as every single
\* source's header holds distinct names.
C5_AsManyAsDistinctNames ==
    OutputColumnsReturned =>
        /\ C5_NamesOnceInFirstSeenOrder
        /\ \A i \in DOMAIN allHeaders :
              Len(outputColumns) >= Cardinality(Range(allHeaders[i]))

\* a header repeats a name and is longer than the list of output columns,
\* which still lists another source's name after it
C5_Witness ==
    /\ OutputColumnsReturned
    /\ Len(outputColumns) >= 2
    /\ \E i \in DOMAIN allHeaders : Len(allHeaders[i]) > Len(outputColumns)

\* reader i has read its file to the end
AtEnd(i) ==
    /\ i <= Len(readers)
    /\ readers[i].eof
    /\ readers[i].pos = Len(files[i].lines)

\* C6: a process that died of its inputs has written nothing, and when
\* anything has been written every source has been read to its end.
C6_AbortBeforeOutput ==
    /\ Aborted => out = <<>>
    /\ out # <<>> => \A i \in DOMAIN files : AtEnd(i)

\* the second source's data held a malformed row: the process died after
\* the first source was read to its end, with nothing written
C6_Witness ==
    /\ Aborted
    /\ status = "fatal"
    /\ Len(allData) = 1
    /\ AtEnd(1)
    /\ readers[2].pos >= 2
    /\ out = <<>>

\* C7: the key list ReadAllInputSources returns is strictly ascending in
\* byte order and holds exactly the keys of the sources' DataCollections; a
\* source of a header and no rows has no key.
C7_KeysSortedUnion ==
    KeysReturned =>
        /\ \A i \in 1..(Len(allKeys) - 1) : LexLess(allKeys[i], allKeys[i + 1])
        /\ Range(allKeys) = UNION {DOMAIN allData[i] : i \in DOMAIN allData}
        /\ \A i \in DOMAIN allData :
              Len(files[i].lines) = 1 => DOMAIN allData[i] = {}

\* two keys, one a proper prefix of the other, while the second source
\* holds a header and no rows
C7_Witness ==
    /\ KeysReturned
    /\ Len(allKeys) >= 2
    /\ Len(files[2].lines) = 1
    /\ \E i \in 1..(Len(allKeys) - 1) :
          /\ Len(allKeys[i]) < Len(allKeys[i + 1])
          /\ SubSeq(allKeys[i + 1], 1, Len(allKeys[i])) = allKeys[i]

\* combination c1 comes before c2 in the nested loops over the sources:
\* at the first source where they differ, c1 holds the earlier row
ComboBefore(c1, c2) ==
    /\ Len(c1) = Len(c2)
    /\ \E n \in DOMAIN c1 :
          /\ \A j \in 1..(n - 1) : c1[j] = c2[j]
          /\ c1[n][1] = c2[n][1]
          /\ c1[n][2] < c2[n][2]

\* C8: the rows are written key after key in ascending key order and,
\* within a key, in the order of nested loops over the sources, the first
\* source outermost, each source's records in input row order.
C8_RowOrder ==
    /\ \A n \in 1..(Len(prtLog) - 1) :
          \/ LexLess(prtLog[n].key, prtLog[n + 1].key)
          \/ /\ prtLog[n].key = prtLog[n + 1].key
             /\ ComboBefore(prtLog[n].combo, prtLog[n + 1].combo)
    /\ \A n \in DOMAIN prtLog :
          \A i, j \in DOMAIN prtLog[n].combo :
              i < j => prtLog[n].combo[i][1] < prtLog[n].combo[j][1]

\* rows of two keys were written, and among the rows of one key both the
\* first and a later source moved on to their next record
C8_Witness ==
    /\ Done
    /\ \E n \in 1..(Len(prtLog) - 1) : prtLog[n].key # prtLog[n + 1].key
    /\ \E n \in 1..(Len(prtLog) - 1) :
          /\ prtLog[n].key = prtLog[n + 1].key
          /\ prtLog[n].combo[1] # prtLog[n + 1].combo[1]
    /\ \E n \in 1..(Len(prtLog) - 1) :
          /\ prtLog[n].key = prtLog[n + 1].key
          /\ prtLog[n].combo[1] = prtLog[n + 1].combo[1]

\* C9: the records prt reads from the slice it is handed are the records
\* chosen along the branch of the call: one record of each source holding
\* records under the key, in source order, none of a sibling branch.
C9_ComboIsOwnBranch ==
    \A n \in DOMAIN prtLog :
        LET e == prtLog[n]
        IN  /\ e.combo = e.path
            /\ {e.combo[i][1] : i \in DOMAIN e.combo} = SourcesOf(e.key)
            /\ Len(e.combo) = Cardinality(SourcesOf(e.key))
            /\ \A i \in DOMAIN e.combo :
                  \E r \in Range(RecordsOf(e.combo[i][1], e.key)) : r.ref = e.combo[i]

\* main returned after an append stored a record in an array over the
\* record a sibling branch had stored there
C9_Witness ==
    /\ Done
    /\ aliased
    /\ \E n \in DOMAIN prtLog : Len(prtLog[n].combo) = 4

\* the records of call n of prt that have column col
Defining(n, col) ==
    {i \in DOMAIN prtLog[n].combo : col \in DOMAIN RecordAt(prtLog[n].combo[i]).m}

\* C10: every row has one cell per output column: the column's value in the
\* first record of the combination that has the column, "" when none has.
C10_FirstDefiningRecord ==
    (pc = "WriteCSVs" \/ Done) =>
        \A n \in DOMAIN prtLog :
            LET row == out[n + 1]
            IN  /\ Len(row) = Len(outputColumns)
                /\ \A c \in DOMAIN outputColumns :
                      LET defs == Defining(n, outputColumns[c])
                          first == CHOOSE i \in defs : \A j \in defs : i <= j
                      IN  row[c] = IF defs = {} THEN Empty
                                   ELSE RecordAt(prtLog[n].combo[first]).m[outputColumns[c]]

\* the payload cell of the record with identity ref (ref[2] is its line
\* in the file, the header being line 1)
PayloadOf(ref) == Payload(ref[1], ref[2] - 1)

\* rows of two kinds were written: one of a record of every source, whose x
\* is source 1's (source 3 has x too) and whose y is source 2's, and one of
\* a record of source 4 alone, whose y is source 4's (source 2, which has y
\* too, holds no record) and whose x (sources 1 and 3 have it) is blank
C10_Witness ==
    /\ Done
    /\ outputColumns = <<colA, colX, colY>>
    /\ \E n \in DOMAIN prtLog :
          /\ Len(prtLog[n].combo) = 4
          /\ out[n + 1][2] = PayloadOf(prtLog[n].combo[1])
          /\ out[n + 1][3] = PayloadOf(prtLog[n].combo[2])
    /\ \E n \in DOMAIN prtLog :
          /\ prtLog[n].combo[1][1] = 4
          /\ Len(prtLog[n].combo) = 1
          /\ out[n + 1][2] = Empty
          /\ out[n + 1][3] = PayloadOf(prtLog[n].combo[1])

=============================================================================
